---- MODULE Spec2Model ----
(***************************************************************************)
(* The interactive key-value interpreter of main.py: one `operate` frame   *)
(* per BEGIN, each with its local `database` (a reference to a dict) and   *)
(* its `is_transaction` flag.  COMMIT returns the frame's dict to the      *)
(* caller, ROLLBACK and END leave the frame by an exception.               *)
(*                                                                         *)
(* Strings are sequences of one-character strings, a dict is the sequence  *)
(* of its items in insertion order, and dict objects live in a heap so     *)
(* that two frames may or may not share one object.                        *)
(***************************************************************************)
EXTENDS Integers, Sequences, FiniteSets, TLC

\* Bound on the number of nested `operate` frames above the base frame.
MaxDepth == 2

VARIABLES
    heap,    \* the dict objects: heap[r] is the item list of object r
    frames,  \* the active `operate` invocations, base first
    pc,      \* "running", "exiting" (ExitException in flight), "exited"
    begun,   \* history: begun[i] is what frame i held when frame i+1 began
    last,    \* history: the last line read, its output, the state before it
    written, \* history: per key, the value of the last SET and its scope
    script,  \* history: how far the last lines follow BEGIN SET BEGIN SET COMMIT
    shadow,  \* history: the run of the same lines without one BEGIN and its COMMIT
    watch    \* which of last, written, script, shadow is recorded in this run

vars == <<heap, frames, pc, begun, last, written, script, shadow, watch>>

----------------------------------------------------------------------------
\* Characters and str.upper()

LowerLetters ==
    <<"a","b","c","d","e","f","g","h","i","j","k","l","m",
      "n","o","p","q","r","s","t","u","v","w","x","y","z">>

UpperLetters ==
    <<"A","B","C","D","E","F","G","H","I","J","K","L","M",
      "N","O","P","Q","R","S","T","U","V","W","X","Y","Z">>

upper_char(c) ==
    IF \E i \in 1..Len(LowerLetters) : LowerLetters[i] = c
    THEN UpperLetters[CHOOSE i \in 1..Len(LowerLetters) : LowerLetters[i] = c]
    ELSE c

upper(s) == [i \in 1..Len(s) |-> upper_char(s[i])]

----------------------------------------------------------------------------
\* class Command

SET      == <<"S","E","T">>
GET      == <<"G","E","T">>
UNSET    == <<"U","N","S","E","T">>
COUNTS   == <<"C","O","U","N","T","S">>
FIND     == <<"F","I","N","D">>
END      == <<"E","N","D">>
BEGIN    == <<"B","E","G","I","N">>
ROLLBACK == <<"R","O","L","L","B","A","C","K">>
COMMIT   == <<"C","O","M","M","I","T">>

\* The dict of required token counts, filled from class CommandLength.
operation_command_length ==
    (SET :> 3) @@ (GET :> 2) @@ (UNSET :> 2) @@ (COUNTS :> 2) @@ (FIND :> 2)
    @@ (END :> 1) @@ (BEGIN :> 1) @@ (ROLLBACK :> 1) @@ (COMMIT :> 1)

\* validate_operation without the .upper() of its first token.
validate_operation_strict(operation) ==
    /\ operation # <<>>
    /\ operation[1] \in DOMAIN operation_command_length
    /\ operation_command_length[operation[1]] = Len(operation)

\* TRUE when validate_operation returns, FALSE when it raises
\* CommandValidationException.
validate_operation(operation) ==
    /\ operation # <<>>
    /\ upper(operation[1]) \in DOMAIN operation_command_length
    /\ operation_command_length[upper(operation[1])] = Len(operation)

----------------------------------------------------------------------------
\* The printed texts

NULL == <<"N","U","L","L">>

\* print("Неизвестная команда или неправильное количество аргументов")
ValidationMessage == <<"Neizvestnaya komanda ili nepravilnoe kolichestvo argumentov">>

\* print("Нет текущей транзакции")
NoTransactionMessage == <<"Net tekushchey tranzaktsii">>

----------------------------------------------------------------------------
\* str.split(sep), the filter of empty tokens, ", ".join and str(int)

RECURSIVE split(_, _)
split(s, sep) ==
    IF \E i \in 1..Len(s) : s[i] = sep
    THEN LET i == CHOOSE j \in 1..Len(s) :
                     s[j] = sep /\ \A m \in 1..(j - 1) : s[m] # sep
         IN  <<SubSeq(s, 1, i - 1)>> \o split(SubSeq(s, i + 1, Len(s)), sep)
    ELSE <<s>>

NotEmpty(x) == x # <<>>

\* operation = raw_operation.split(" "): the empty strings are kept.
tokens_unfiltered(raw_operation) == split(raw_operation, " ")

\* operation = list(filter(lambda x: x != "", raw_operation.split(" ")))
tokens(raw_operation) == SelectSeq(split(raw_operation, " "), NotEmpty)

RECURSIVE join(_, _)
join(sep, list) ==
    IF list = <<>> THEN <<>>
    ELSE IF Len(list) = 1 THEN list[1]
    ELSE list[1] \o sep \o join(sep, Tail(list))

Digits == <<"0","1","2","3","4","5","6","7","8","9">>

RECURSIVE str(_)
str(n) == IF n < 10 THEN <<Digits[n + 1]>>
          ELSE str(n \div 10) \o <<Digits[(n % 10) + 1]>>

----------------------------------------------------------------------------
\* dict: the sequence of its items [key, value] in insertion order

has_key(d, key) == \E i \in 1..Len(d) : d[i].key = key

index_of(d, key) == CHOOSE i \in 1..Len(d) : d[i].key = key

\* database.setdefault(key, value): a present key keeps its value.
dict_set_default(d, key, value) ==
    IF has_key(d, key) THEN d ELSE Append(d, [key |-> key, value |-> value])

\* database[key] = value
dict_set(d, key, value) ==
    IF has_key(d, key)
    THEN [d EXCEPT ![index_of(d, key)].value = value]
    ELSE Append(d, [key |-> key, value |-> value])

\* database.get(key.upper(), default): the key is normalised like a command.
dict_get_upper(d, key, default) ==
    IF has_key(d, upper(key)) THEN d[index_of(d, upper(key))].value ELSE default

\* database.get(key, default)
dict_get(d, key, default) ==
    IF has_key(d, key) THEN d[index_of(d, key)].value ELSE default

IsNotKey(item, key) == item.key # key

\* database.popitem(): the last item is removed, whatever the key.
dict_pop_item(d, key) == IF d = <<>> THEN d ELSE SubSeq(d, 1, Len(d) - 1)

\* database.pop(key, ""): the item of `key` is removed, if there is one.
dict_pop(d, key) == SelectSeq(d, LAMBDA item : IsNotKey(item, key))

\* COUNTS with `for v in database`: the loop runs over the keys.
count_value_keys(d, value) == Cardinality({i \in 1..Len(d) : d[i].key = value})

\* the loop of COUNTS over database.values()
count_value(d, value) == Cardinality({i \in 1..Len(d) : d[i].value = value})

\* FIND with commands.insert(0, k): the matching keys in reverse order.
RECURSIVE find_value_reversed(_, _)
find_value_reversed(d, value) ==
    IF d = <<>> THEN <<>>
    ELSE find_value_reversed(Tail(d), value)
         \o (IF d[1].value = value THEN <<d[1].key>> ELSE <<>>)

\* the loop of FIND over database.items()
RECURSIVE find_value(_, _)
find_value(d, value) ==
    IF d = <<>> THEN <<>>
    ELSE (IF d[1].value = value THEN <<d[1].key>> ELSE <<>>)
         \o find_value(Tail(d), value)

\* operate(database, True): the caller's dict object itself is passed.
copy_alias(h, ref) == [heap |-> h, ref |-> ref]

\* operate({}, True): the nested frame starts from a new empty dict.
copy_empty(h, ref) == [heap |-> Append(h, <<>>), ref |-> Len(h) + 1]

\* copy(database): a new dict object with the same items
copy(h, ref) == [heap |-> Append(h, h[ref]), ref |-> Len(h) + 1]

----------------------------------------------------------------------------
\* Frames and the objects they reference

Depth == Len(frames) - 1

Top == frames[Len(frames)]

\* The items of the dict that frame i's `database` references.
StoreOf(h, f, i) == h[f[i].database]

Stores(h, f) == [i \in 1..Len(f) |-> StoreOf(h, f, i)]

Current == StoreOf(heap, frames, Len(frames))

\* Objects no frame references are reclaimed; the remaining ones are
\* numbered in the order the frames reference them.
FirstFrame(f, r) ==
    CHOOSE i \in 1..Len(f) :
        f[i].database = r /\ \A j \in 1..(i - 1) : f[j].database # r

Rank(f, r) == Cardinality({f[j].database : j \in 1..FirstFrame(f, r)})

Refs(f) == {f[i].database : i \in 1..Len(f)}

ReclaimedHeap(h, f) ==
    [n \in 1..Cardinality(Refs(f)) |->
        h[CHOOSE r \in Refs(f) : Rank(f, r) = n]]

ReclaimedFrames(f) ==
    [i \in 1..Len(f) |-> [f[i] EXCEPT !.database = Rank(f, f[i].database)]]

Before == [heap |-> heap, frames |-> frames, begun |-> begun]

----------------------------------------------------------------------------
\* The lines the front end may deliver

Keys == {<<"a">>, <<"A">>}

Values == {<<"1">>, <<"2">>}

Sp(a, b) == a \o <<" ">> \o b

Tab(a, b) == a \o <<"\t">> \o b

ValidLines ==
    {Sp(Sp(SET, k), v) : k \in Keys, v \in Values}
    \cup {Sp(GET, k) : k \in Keys}
    \cup {Sp(UNSET, k) : k \in Keys}
    \cup {Sp(COUNTS, v) : v \in Values}
    \cup {Sp(FIND, v) : v \in Values}
    \cup {BEGIN, COMMIT, ROLLBACK, END}

MixedCaseLines ==
    { <<"s","e","t"," ","a"," ","2">>, <<"G","e","t"," ","A">>,
      <<"b","e","g","i","n">>, <<"R","o","l","l","b","a","c","k">> }

SpacedLines ==
    { <<"S","E","T"," "," ","a"," "," "," ","1">>,
      <<" ","G","E","T"," ","a"," ">>,
      <<" "," ","B","E","G","I","N">> }

InvalidLines ==
    { <<>>, <<" "," ">>, <<"F","O","O">>, Sp(SET, <<"a">>),
      Sp(BEGIN, <<"a">>), Tab(Tab(SET, <<"a">>), <<"1">>) }

Lines == ValidLines \cup MixedCaseLines \cup SpacedLines \cup InvalidLines

\* Lines over three keys, each with one value; the value of key a is the
\* text NULL.
WideKeys == {<<"a">>, <<"A">>, <<"b">>}

WideValues == {NULL, <<"1">>}

WideLines ==
    { Sp(Sp(SET, <<"a">>), NULL), Sp(Sp(SET, <<"A">>), <<"1">>),
      Sp(Sp(SET, <<"b">>), <<"1">>) }
    \cup {Sp(GET, k) : k \in WideKeys}
    \cup {Sp(UNSET, k) : k \in WideKeys}
    \cup {Sp(COUNTS, v) : v \in WideValues}
    \cup {Sp(FIND, v) : v \in WideValues}
    \cup {BEGIN, COMMIT, ROLLBACK, END, <<>>}

AllLines == Lines \cup WideLines

\* The token list and the command of each line, computed once.
operation_of == [raw_operation \in AllLines |-> tokens(raw_operation)]

command_of ==
    [raw_operation \in AllLines |->
        IF validate_operation(operation_of[raw_operation])
        THEN upper(operation_of[raw_operation][1])
        ELSE <<>>]

----------------------------------------------------------------------------
\* History bookkeeping

NotWritten == [state |-> "none", value |-> <<>>, scope |-> 0]

WrittenSet(key, value) ==
    IF watch = "written" /\ key \in DOMAIN written
    THEN [written EXCEPT ![key] = [state |-> "live", value |-> value, scope |-> Depth]]
    ELSE written

WrittenUnset(key) ==
    IF watch = "written" /\ key \in DOMAIN written THEN [written EXCEPT ![key] = NotWritten] ELSE written

\* COMMIT hands the writes of the committed scope to its parent.
WrittenCommit ==
    [k \in DOMAIN written |->
        IF watch = "written" /\ written[k].state = "live"
           /\ written[k].scope = Depth
        THEN [written[k] EXCEPT !.scope = Depth - 1]
        ELSE written[k]]

\* ROLLBACK marks the writes of the discarded scope.
WrittenRollback ==
    [k \in DOMAIN written |->
        IF watch = "written" /\ written[k].state = "live"
           /\ written[k].scope = Depth
        THEN [written[k] EXCEPT !.state = "rolled", !.scope = 0]
        ELSE written[k]]

NoScript == [stage |-> 0, key |-> <<>>, value |-> <<>>, value2 |-> <<>>]

\* The stage reached once `operation` has run as `command` in the state
\* before it: 1 BEGIN at depth 0, 2 SET k v with k absent from the base
\* store, 3 BEGIN, 4 SET k v2, 5 COMMIT, then 6 COMMIT or 7 ROLLBACK.
ScriptStep(command, operation) ==
    IF watch # "script"
        THEN script
    ELSE IF command = BEGIN /\ Depth = 0
        THEN [NoScript EXCEPT !.stage = 1]
    ELSE IF script.stage = 1 /\ command = SET
            /\ ~has_key(StoreOf(heap, frames, 1), operation[2])
        THEN [stage |-> 2, key |-> operation[2], value |-> operation[3],
              value2 |-> <<>>]
    ELSE IF script.stage = 2 /\ command = BEGIN
        THEN [script EXCEPT !.stage = 3]
    ELSE IF script.stage = 3 /\ command = SET /\ operation[2] = script.key
        THEN [script EXCEPT !.stage = 4, !.value2 = operation[3]]
    ELSE IF script.stage = 4 /\ command = COMMIT
        THEN [script EXCEPT !.stage = 5]
    ELSE IF script.stage = 5 /\ command = COMMIT
        THEN [script EXCEPT !.stage = 6]
    ELSE IF script.stage = 5 /\ command = ROLLBACK
        THEN [script EXCEPT !.stage = 7]
    ELSE NoScript

Ran(raw_operation, command, printed, raised) ==
    IF watch = "last"
    THEN [raw |-> raw_operation, operation |-> operation_of[raw_operation],
          command |-> command, printed |-> printed,
          raised |-> raised, before |-> Before]
    ELSE last

----------------------------------------------------------------------------
\* Entering and leaving a nested `operate`

\* operate(database): the nested frame is entered with is_transaction False.
Entered_unflagged(ref) == [database |-> ref, is_transaction |-> FALSE]

\* The frame of operate(<ref>, True).
Entered(ref) == [database |-> ref, is_transaction |-> TRUE]

\* The except clause assigns the dict of the frame that raised.
Unwound_assigns(f) ==
    [SubSeq(f, 1, Len(f) - 1) EXCEPT ![Len(f) - 1].database = f[Len(f)].database]

\* No caller catches: every nested frame is left.
Unwound_all(f) == SubSeq(f, 1, 1)

\* The frames once the top frame has left by an exception: the caller's
\* `database` is not assigned.
Unwound(f) == SubSeq(f, 1, Len(f) - 1)

\* operate(copy(database), True) without the assignment of its result.
Returned_discarded(f) == SubSeq(f, 1, Len(f) - 1)

\* The frames once the top frame has returned its `database`:
\* database = operate(copy(database), True) in the caller.
Returned(f) ==
    [Unwound(f) EXCEPT ![Len(f) - 1].database = f[Len(f)].database]

\* One iteration of the loop of operate on the heap h and the frames f,
\* for a line whose tokens are `operation` and whose command is `command`
\* (<<>> when validate_operation raised): the heap, the frames and the
\* printed texts after it.
Iteration(h, f, command, operation) ==
    LET top == f[Len(f)]
        database == h[top.database]
        Result(h2, f2, printed) == [heap |-> h2, frames |-> f2, printed |-> printed]
    IN  IF command = <<>> THEN Result(h, f, <<ValidationMessage>>)
        ELSE IF command = SET
        THEN Result([h EXCEPT ![top.database] =
                        dict_set(@, operation[2], operation[3])], f, <<>>)
        ELSE IF command = GET
        THEN Result(h, f, <<dict_get(database, operation[2], NULL)>>)
        ELSE IF command = UNSET
        THEN Result([h EXCEPT ![top.database] = dict_pop(@, operation[2])], f, <<>>)
        ELSE IF command = COUNTS
        THEN Result(h, f, <<str(count_value(database, operation[2]))>>)
        ELSE IF command = FIND
        THEN Result(h, f, <<join(<<",", " ">>, find_value(database, operation[2]))>>)
        ELSE IF command = BEGIN
        THEN LET c == copy(h, top.database)
             IN  Result(c.heap, Append(f, Entered(c.ref)), <<>>)
        ELSE IF command = ROLLBACK
        THEN IF ~top.is_transaction THEN Result(h, f, <<NoTransactionMessage>>)
             ELSE Result(ReclaimedHeap(h, Unwound(f)),
                         ReclaimedFrames(Unwound(f)), <<>>)
        ELSE IF command = COMMIT
        THEN IF ~top.is_transaction THEN Result(h, f, <<NoTransactionMessage>>)
             ELSE Result(ReclaimedHeap(h, Returned(f)),
                         ReclaimedFrames(Returned(f)), <<>>)
        ELSE Result(h, f, <<>>)

\* The shadow run when none is followed.
NoShadow(phase) ==
    [phase |-> phase, base |-> 0, heap |-> <<>>, frames |-> <<>>,
     pre |-> <<>>, empty |-> FALSE, same |-> TRUE]

\* The shadow run after a line.  It starts at a BEGIN ("open") from the
\* heap and frames before that BEGIN, runs every line of the opened scope
\* with Iteration, skips the COMMIT of that scope ("closed") and goes on
\* with the lines after it ("after"); `same` tells that it has printed what
\* the run itself printed, `pre` holds the stores before the BEGIN and
\* `empty` tells that no line was read since.  ROLLBACK of the opened scope
\* gives "rolled"; the shadow run is dropped ("off") after that and when
\* ExitException is raised.
Shadowed(raw_operation, command, printed, raised) ==
    LET run == Iteration(shadow.heap, shadow.frames, command,
                         operation_of[raw_operation])
        ran == [shadow EXCEPT !.heap = run.heap, !.frames = run.frames,
                              !.same = @ /\ run.printed = printed,
                              !.empty = FALSE]
    IN  IF watch # "shadow" THEN {shadow}
        ELSE IF shadow.phase = "idle"
        THEN IF command = BEGIN
             THEN {shadow,
                   [phase |-> "open", base |-> Depth, heap |-> heap,
                    frames |-> frames, pre |-> Stores(heap, frames),
                    empty |-> TRUE, same |-> TRUE]}
             ELSE {shadow}
        ELSE IF shadow.phase = "open"
        THEN IF raised = "ExitException" THEN {NoShadow("off")}
             ELSE IF command = COMMIT /\ Depth = shadow.base + 1
             THEN {[shadow EXCEPT !.phase = "closed"]}
             ELSE IF command = ROLLBACK /\ Depth = shadow.base + 1
             THEN {[shadow EXCEPT !.phase = "rolled"]}
             ELSE {ran}
        ELSE IF shadow.phase \in {"closed", "after"}
        THEN IF raised = "ExitException" THEN {NoShadow("off")}
             ELSE {[ran EXCEPT !.phase = "after", !.pre = <<>>, !.base = 0]}
        ELSE {NoShadow("off")}

----------------------------------------------------------------------------
\* The state after `operate()` is entered from __main__

Started ==
    /\ heap = << <<>> >>
    /\ frames = <<[database |-> 1, is_transaction |-> FALSE]>>
    /\ pc = "running"
    /\ begun = <<>>
    /\ last = [raw |-> <<>>, operation |-> <<>>, command |-> <<>>, printed |-> <<>>,
               raised |-> "start", before |-> [heap |-> << <<>> >>,
               frames |-> <<[database |-> 1, is_transaction |-> FALSE]>>,
               begun |-> <<>>]]
    /\ written = [k \in Keys |-> NotWritten]
    /\ script = NoScript
    /\ shadow = NoShadow("idle")

Init == Started /\ watch \in {"last", "written", "script"}

\* input("> ") returned raw_operation, it passed validate_operation and
\* its first token uppercased is `command`.
Dispatched(raw_operation, command) ==
    /\ pc = "running"
    /\ command_of[raw_operation] = command

----------------------------------------------------------------------------
\* The cases of `match command` in operate

\* case Command.SET followed by print(value): the stored value is echoed.
Set_echoes(raw_operation) ==
    LET operation == operation_of[raw_operation] IN
    /\ Dispatched(raw_operation, SET)
    /\ heap' = [heap EXCEPT ![Top.database] =
                    dict_set(@, operation[2], operation[3])]
    /\ written' = WrittenSet(operation[2], operation[3])
    /\ script' = ScriptStep(SET, operation)
    /\ last' = Ran(raw_operation, SET, <<operation[3]>>, "")
    /\ shadow' \in Shadowed(raw_operation, SET, <<operation[3]>>, "")
    /\ UNCHANGED <<frames, pc, begun, watch>>

\* case Command.SET: database[key] = value
Set(raw_operation) ==
    LET operation == operation_of[raw_operation] IN
    /\ Dispatched(raw_operation, SET)
    /\ heap' = [heap EXCEPT ![Top.database] =
                    dict_set(@, operation[2], operation[3])]
    /\ written' = WrittenSet(operation[2], operation[3])
    /\ script' = ScriptStep(SET, operation)
    /\ last' = Ran(raw_operation, SET, <<>>, "")
    /\ shadow' \in Shadowed(raw_operation, SET, <<>>, "")
    /\ UNCHANGED <<frames, pc, begun, watch>>

\* case Command.GET: print(database.get(key, "NULL"))
Get(raw_operation) ==
    LET operation == operation_of[raw_operation] IN
    /\ Dispatched(raw_operation, GET)
    /\ script' = ScriptStep(GET, operation)
    /\ last' = Ran(raw_operation, GET, <<dict_get(Current, operation[2], NULL)>>, "")
    /\ shadow' \in Shadowed(raw_operation, GET, <<dict_get(Current, operation[2], NULL)>>, "")
    /\ UNCHANGED <<heap, frames, pc, begun, written, watch>>

\* case Command.UNSET: database.pop(key, "")
Unset(raw_operation) ==
    LET operation == operation_of[raw_operation] IN
    /\ Dispatched(raw_operation, UNSET)
    /\ heap' = [heap EXCEPT ![Top.database] = dict_pop(@, operation[2])]
    /\ written' = WrittenUnset(operation[2])
    /\ script' = ScriptStep(UNSET, operation)
    /\ last' = Ran(raw_operation, UNSET, <<>>, "")
    /\ shadow' \in Shadowed(raw_operation, UNSET, <<>>, "")
    /\ UNCHANGED <<frames, pc, begun, watch>>

\* case Command.COUNTS: print(counter)
Counts(raw_operation) ==
    LET operation == operation_of[raw_operation] IN
    /\ Dispatched(raw_operation, COUNTS)
    /\ script' = ScriptStep(COUNTS, operation)
    /\ last' = Ran(raw_operation, COUNTS,
                   <<str(count_value(Current, operation[2]))>>, "")
    /\ shadow' \in Shadowed(raw_operation, COUNTS,
                            <<str(count_value(Current, operation[2]))>>, "")
    /\ UNCHANGED <<heap, frames, pc, begun, written, watch>>

\* case Command.FIND: print(", ".join(commands))
Find(raw_operation) ==
    LET operation == operation_of[raw_operation] IN
    /\ Dispatched(raw_operation, FIND)
    /\ script' = ScriptStep(FIND, operation)
    /\ last' = Ran(raw_operation, FIND,
                   <<join(<<",", " ">>, find_value(Current, operation[2]))>>, "")
    /\ shadow' \in Shadowed(raw_operation, FIND,
                            <<join(<<",", " ">>, find_value(Current, operation[2]))>>, "")
    /\ UNCHANGED <<heap, frames, pc, begun, written, watch>>

\* case Command.END: raise ExitException
End(raw_operation) ==
    /\ Dispatched(raw_operation, END)
    /\ pc' = "exiting"
    /\ script' = NoScript
    /\ last' = Ran(raw_operation, END, <<>>, "ExitException")
    /\ shadow' \in Shadowed(raw_operation, END, <<>>, "ExitException")
    /\ UNCHANGED <<heap, frames, begun, written, watch>>

\* input() raised EOFError or KeyboardInterrupt: raise ExitException
Interrupt ==
    /\ pc = "running"
    /\ pc' = "exiting"
    /\ script' = NoScript
    /\ last' = Ran(<<>>, <<>>, <<>>, "ExitException")
    /\ shadow' \in Shadowed(<<>>, <<>>, <<>>, "ExitException")
    /\ UNCHANGED <<heap, frames, begun, written, watch>>

\* case Command.BEGIN: the nested operate(copy(database), True) is entered
Begin(raw_operation) ==
    LET c == copy(heap, Top.database) IN
    /\ Dispatched(raw_operation, BEGIN)
    /\ Depth < MaxDepth
    /\ heap' = c.heap
    /\ frames' = Append(frames, Entered(c.ref))
    /\ begun' = Append(begun, Current)
    /\ script' = ScriptStep(BEGIN, operation_of[raw_operation])
    /\ last' = Ran(raw_operation, BEGIN, <<>>, "")
    /\ shadow' \in Shadowed(raw_operation, BEGIN, <<>>, "")
    /\ UNCHANGED <<pc, written, watch>>

\* case Command.ROLLBACK: outside a transaction a message; inside, raise
\* TransactionRollbackException, which the caller's BEGIN case catches.
Rollback(raw_operation) ==
    /\ Dispatched(raw_operation, ROLLBACK)
    /\ IF ~Top.is_transaction
       THEN /\ last' = Ran(raw_operation, ROLLBACK,
                           <<NoTransactionMessage>>, "")
            /\ shadow' \in Shadowed(raw_operation, ROLLBACK,
                                    <<NoTransactionMessage>>, "")
            /\ written' = written
            /\ UNCHANGED <<heap, frames, begun>>
       ELSE /\ heap' = ReclaimedHeap(heap, Unwound(frames))
            /\ frames' = ReclaimedFrames(Unwound(frames))
            /\ begun' = SubSeq(begun, 1, Len(begun) - 1)
            /\ written' = WrittenRollback
            /\ last' = Ran(raw_operation, ROLLBACK, <<>>,
                           "TransactionRollbackException")
            /\ shadow' \in Shadowed(raw_operation, ROLLBACK, <<>>,
                           "TransactionRollbackException")
    /\ script' = ScriptStep(ROLLBACK, operation_of[raw_operation])
    /\ UNCHANGED <<pc, watch>>

\* case Command.COMMIT: outside a transaction a message; inside, break
\* and return database to the caller's BEGIN case.
Commit(raw_operation) ==
    /\ Dispatched(raw_operation, COMMIT)
    /\ IF ~Top.is_transaction
       THEN /\ last' = Ran(raw_operation, COMMIT,
                           <<NoTransactionMessage>>, "")
            /\ shadow' \in Shadowed(raw_operation, COMMIT,
                                    <<NoTransactionMessage>>, "")
            /\ written' = written
            /\ UNCHANGED <<heap, frames, begun>>
       ELSE /\ heap' = ReclaimedHeap(heap, Returned(frames))
            /\ frames' = ReclaimedFrames(Returned(frames))
            /\ begun' = SubSeq(begun, 1, Len(begun) - 1)
            /\ written' = WrittenCommit
            /\ last' = Ran(raw_operation, COMMIT, <<>>, "")
            /\ shadow' \in Shadowed(raw_operation, COMMIT, <<>>, "")
    /\ script' = ScriptStep(COMMIT, operation_of[raw_operation])
    /\ UNCHANGED <<pc, watch>>

\* validate_operation raised and the loop is left by `break`: the frame
\* returns its database.
Rejected_breaks(raw_operation) ==
    /\ pc = "running"
    /\ command_of[raw_operation] = <<>>
    /\ script' = NoScript
    /\ last' = Ran(raw_operation, <<>>, <<ValidationMessage>>, "")
    /\ shadow' \in Shadowed(raw_operation, <<>>, <<ValidationMessage>>, "")
    /\ IF Top.is_transaction
       THEN /\ heap' = ReclaimedHeap(heap, Returned(frames))
            /\ frames' = ReclaimedFrames(Returned(frames))
            /\ begun' = SubSeq(begun, 1, Len(begun) - 1)
            /\ pc' = pc
       ELSE /\ pc' = "exited"
            /\ UNCHANGED <<heap, frames, begun>>
    /\ UNCHANGED <<written, watch>>

\* validate_operation raised: the message is printed and the loop continues
Rejected(raw_operation) ==
    /\ pc = "running"
    /\ command_of[raw_operation] = <<>>
    /\ script' = NoScript
    /\ last' = Ran(raw_operation, <<>>, <<ValidationMessage>>, "")
    /\ shadow' \in Shadowed(raw_operation, <<>>, <<ValidationMessage>>, "")
    /\ UNCHANGED <<heap, frames, pc, begun, written, watch>>

\* The caller's except clause catches ExitException too and its loop goes on.
PropagateExit_caught ==
    /\ pc = "exiting"
    /\ Len(frames) > 1
    /\ heap' = ReclaimedHeap(heap, Unwound(frames))
    /\ frames' = ReclaimedFrames(Unwound(frames))
    /\ begun' = SubSeq(begun, 1, Len(begun) - 1)
    /\ pc' = "running"
    /\ UNCHANGED <<last, shadow, written, script, watch>>

\* ExitException passes through the BEGIN case of a caller, whose except
\* clause names TransactionRollbackException only.
PropagateExit ==
    /\ pc = "exiting"
    /\ Len(frames) > 1
    /\ heap' = ReclaimedHeap(heap, Unwound(frames))
    /\ frames' = ReclaimedFrames(Unwound(frames))
    /\ begun' = SubSeq(begun, 1, Len(begun) - 1)
    /\ UNCHANGED <<pc, last, shadow, written, script, watch>>

\* ExitException leaves the base operate() and __main__ catches it.
CatchExit ==
    /\ pc = "exiting"
    /\ Len(frames) = 1
    /\ pc' = "exited"
    /\ UNCHANGED <<heap, frames, begun, last, shadow, written, script, watch>>

Next ==
    \/ \E raw_operation \in Lines : Set(raw_operation)
    \/ \E raw_operation \in Lines : Get(raw_operation)
    \/ \E raw_operation \in Lines : Unset(raw_operation)
    \/ \E raw_operation \in Lines : Counts(raw_operation)
    \/ \E raw_operation \in Lines : Find(raw_operation)
    \/ \E raw_operation \in Lines : End(raw_operation)
    \/ \E raw_operation \in Lines : Begin(raw_operation)
    \/ \E raw_operation \in Lines : Rollback(raw_operation)
    \/ \E raw_operation \in Lines : Commit(raw_operation)
    \/ \E raw_operation \in Lines : Rejected(raw_operation)
    \/ Interrupt
    \/ PropagateExit
    \/ CatchExit

Spec == Init /\ [][Next]_vars

\* The same program reading the lines over three keys, with `last` recorded.
InitWide == Init /\ watch = "last"

NextWide ==
    \/ \E raw_operation \in WideLines : Set(raw_operation)
    \/ \E raw_operation \in WideLines : Get(raw_operation)
    \/ \E raw_operation \in WideLines : Unset(raw_operation)
    \/ \E raw_operation \in WideLines : Counts(raw_operation)
    \/ \E raw_operation \in WideLines : Find(raw_operation)
    \/ \E raw_operation \in WideLines : End(raw_operation)
    \/ \E raw_operation \in WideLines : Begin(raw_operation)
    \/ \E raw_operation \in WideLines : Rollback(raw_operation)
    \/ \E raw_operation \in WideLines : Commit(raw_operation)
    \/ \E raw_operation \in WideLines : Rejected(raw_operation)
    \/ Interrupt
    \/ PropagateExit
    \/ CatchExit

SpecWide == InitWide /\ [][NextWide]_vars

\* The same program with the shadow run recorded.
InitShadow == Started /\ watch = "shadow"

SpecShadow == InitShadow /\ [][Next]_vars

----------------------------------------------------------------------------
\* The state before the last line, as `last` recorded it

BeforeDepth == Len(last.before.frames) - 1

BeforeStores == Stores(last.before.heap, last.before.frames)

BeforeCurrent == BeforeStores[BeforeDepth + 1]

NowStores == Stores(heap, frames)

\* The last line was ROLLBACK, read inside a transaction.
RolledBack ==
    watch = "last" /\ last.command = ROLLBACK /\ BeforeDepth >= 1

\* The last line was COMMIT, read inside a transaction.
Committed ==
    watch = "last" /\ last.command = COMMIT /\ BeforeDepth >= 1

\* C1: a ROLLBACK at depth n >= 1 discards only the innermost scope: the
\* depth becomes n-1, the visible store is the store the parent held when
\* the matching BEGIN was issued, whatever ran inside the scope, and the
\* parent and every scope below it are untouched.
C1_RollbackDiscardsInnermost ==
    RolledBack =>
        /\ Depth = BeforeDepth - 1
        /\ Current = last.before.begun[BeforeDepth]
        /\ NowStores = SubSeq(BeforeStores, 1, BeforeDepth)
        /\ begun = SubSeq(last.before.begun, 1, BeforeDepth - 1)

\* A ROLLBACK at depth 2 of a scope that differed from its parent, whose
\* parent differed from the base store.
C1_Witness ==
    /\ RolledBack
    /\ BeforeDepth = 2
    /\ BeforeStores[3] # BeforeStores[2]
    /\ BeforeStores[2] # BeforeStores[1]
    /\ Current # <<>>

\* C2: a COMMIT at depth n >= 1 makes the parent's store equal to the
\* committed scope's final contents (full replacement), the depth becomes
\* n-1, and no scope below the parent changes.
C2_CommitReplacesParent ==
    Committed =>
        /\ Depth = BeforeDepth - 1
        /\ Current = BeforeStores[BeforeDepth + 1]
        /\ SubSeq(NowStores, 1, Depth) = SubSeq(BeforeStores, 1, BeforeDepth - 1)

\* A COMMIT at depth 2 of a scope in which a key of the parent was unset
\* and another key was given a new value.
C2_Witness ==
    /\ Committed
    /\ BeforeDepth = 2
    /\ \E k \in Keys :
          has_key(BeforeStores[2], k) /\ ~has_key(BeforeStores[3], k)
    /\ \E k \in Keys :
          /\ has_key(BeforeStores[2], k) /\ has_key(BeforeStores[3], k)
          /\ dict_get(BeforeStores[2], k, NULL) # dict_get(BeforeStores[3], k, NULL)
    /\ BeforeStores[1] # BeforeStores[2]

\* C3: from a base store without k, BEGIN; SET k v; BEGIN; SET k v2;
\* COMMIT; ROLLBACK ends at depth 0 with k unset in the base store, and
\* BEGIN; SET k v; BEGIN; SET k v2; COMMIT; COMMIT ends at depth 0 with
\* k = v2 in the base store.
C3_CommitFoldsIntoParentOnly ==
    /\ script.stage = 7 =>
          Depth = 0 /\ ~has_key(Current, script.key)
    /\ script.stage = 6 =>
          /\ Depth = 0
          /\ has_key(Current, script.key)
          /\ dict_get(Current, script.key, NULL) = script.value2

\* The sequence ending in ROLLBACK has run, with v2 different from v and
\* another key in the base store.
C3_Witness ==
    /\ script.stage = 7
    /\ script.value # script.value2
    /\ Current # <<>>

\* The sequence ending in COMMIT has run, with v2 different from v.
C3_WitnessCommitted ==
    /\ script.stage = 6
    /\ script.value # script.value2

\* C4 as amended: after SET k v, GET k returns v until an UNSET k, an
\* overwriting SET k v2, or a ROLLBACK of the scope that holds the SET
\* (the scope it was issued in or one it has been committed into).
C4_SetPersistsUntilUnsetSetOrRollback ==
    pc = "running" =>
        \A k \in Keys :
            written[k].state = "live" =>
                /\ has_key(Current, k)
                /\ dict_get(Current, k, NULL) = written[k].value

\* C4 as stated: after SET k v, GET k returns v until an UNSET k or an
\* overwriting SET k v2; no other command changes what GET k returns.
C4_SetPersistsUntilUnsetOrSet ==
    pc = "running" =>
        \A k \in Keys :
            written[k].state # "none" =>
                dict_get(Current, k, NULL) = written[k].value

\* A SET made at depth 2 has been committed twice and is visible in the
\* base store, while the other key's SET is still in force as well.
C4_Witness ==
    /\ pc = "running"
    /\ Depth = 0
    /\ \A k \in Keys : written[k].state = "live"
    /\ \E k \in Keys : \E j \in Keys :
          written[k].value # written[j].value
    /\ begun = <<>>
    /\ Len(Current) = 2

\* C5: ROLLBACK or COMMIT prints the no-transaction message exactly when
\* it is read at depth 0, and no other line prints it; at depth 0 the
\* stores, the frames and the depth are unchanged and the loop goes on.
C5_TransactionErrorIffNoTransaction ==
    watch = "last" =>
        /\ last.command \in {ROLLBACK, COMMIT} =>
              (last.printed = <<NoTransactionMessage>> <=> BeforeDepth = 0)
        /\ last.printed = <<NoTransactionMessage>> =>
              /\ last.command \in {ROLLBACK, COMMIT}
              /\ heap = last.before.heap
              /\ frames = last.before.frames
              /\ begun = last.before.begun
              /\ last.raised = ""
              /\ pc = "running"

\* COMMIT read at depth 0 over a non-empty base store.
C5_Witness ==
    /\ watch = "last"
    /\ last.command = COMMIT
    /\ last.printed = <<NoTransactionMessage>>
    /\ Len(Current) = 2

\* A line was read and validate_operation raised on its tokens.
RejectedLine ==
    /\ watch = "last"
    /\ last.raised = ""
    /\ ~validate_operation(last.operation)

\* C6: a line that fails validation, at any depth, prints the validation
\* message, leaves every store, the frames and the depth unchanged, and
\* the loop of the same scope goes on.
C6_RejectedLineChangesNothing ==
    RejectedLine =>
        /\ last.printed = <<ValidationMessage>>
        /\ last.command = <<>>
        /\ heap = last.before.heap
        /\ frames = last.before.frames
        /\ begun = last.before.begun
        /\ pc = "running"

\* A line with a wrong token count rejected at depth 2.
C6_Witness ==
    /\ RejectedLine
    /\ last.operation = <<SET, <<"a">> >>
    /\ Depth = 2
    /\ NowStores[3] # NowStores[2]

\* C7: END, end-of-input or an interrupt at any depth ends the session:
\* nothing is processed after it, every nested scope is left, and no
\* remaining store differs from what it held when the signal arrived.
C7_TerminateEndsSession ==
    /\ watch = "last" => (pc # "running" <=> last.raised = "ExitException")
    /\ (watch = "last" /\ last.raised = "ExitException") =>
          /\ pc \in {"exiting", "exited"}
          /\ last.command \in {END, <<>>}
          /\ Len(frames) <= BeforeDepth + 1
          /\ \A i \in 1..Len(frames) :
                StoreOf(heap, frames, i) = BeforeStores[i]
    /\ pc = "exited" => Depth = 0

\* END read at depth 2 with three different stores; the session has ended.
C7_Witness ==
    /\ watch = "last"
    /\ pc = "exited"
    /\ last.command = END
    /\ BeforeDepth = 2
    /\ BeforeStores[3] # BeforeStores[2]
    /\ BeforeStores[2] # BeforeStores[1]

\* C8: the depth is never negative and the base frame is always there;
\* BEGIN adds 1 to the depth, COMMIT and ROLLBACK inside a transaction
\* subtract 1, every other processed line leaves it unchanged.
C8_DepthDiscipline ==
    /\ Depth >= 0
    /\ Len(frames) >= 1
    /\ \A i \in 1..Len(frames) : frames[i].database \in 1..Len(heap)
    /\ (watch = "last" /\ last.raised \notin {"start", "ExitException"}) =>
          Depth = BeforeDepth
                  + (IF last.command = BEGIN THEN 1
                     ELSE IF last.command \in {COMMIT, ROLLBACK}
                             /\ BeforeDepth >= 1 THEN -1
                     ELSE 0)

\* A ROLLBACK read at depth 2.
C8_Witness ==
    /\ RolledBack
    /\ BeforeDepth = 2
    /\ Depth = 1

\* The acceptance rule as the specification words it.
Accepts(operation) ==
    /\ operation # <<>>
    /\ \/ upper(operation[1]) = SET /\ Len(operation) = 3
       \/ upper(operation[1]) \in {GET, UNSET, COUNTS, FIND}
          /\ Len(operation) = 2
       \/ upper(operation[1]) \in {END, BEGIN, ROLLBACK, COMMIT}
          /\ Len(operation) = 1

\* validate_operation accepts exactly the lines the rule accepts.
ValidationFollowsRule ==
    \A raw_operation \in Lines :
        validate_operation(tokens(raw_operation))
            <=> Accepts(tokens(raw_operation))

\* A line was read (not the start, not an interrupt).
LineRead ==
    /\ watch = "last"
    /\ last.raised # "start"
    /\ ~(last.raised = "ExitException" /\ last.command = <<>>)

\* C9: a token list is accepted iff it is non-empty, its first token
\* uppercased is a command and its length is that command's arity; an
\* accepted line in any letter case runs the case of its uppercase form,
\* and key and value tokens are used as typed.
C9_ValidationAndCaseInsensitiveDispatch ==
    /\ ValidationFollowsRule
    /\ LineRead =>
          /\ last.command # <<>> <=> Accepts(last.operation)
          /\ last.command # <<>> => last.command = upper(last.operation[1])
          /\ last.command = SET =>
                /\ has_key(Current, last.operation[2])
                /\ dict_get(Current, last.operation[2], NULL) = last.operation[3]
                /\ \A k \in Keys \ {last.operation[2]} :
                      /\ has_key(Current, k) <=> has_key(BeforeCurrent, k)
                      /\ dict_get(Current, k, NULL) = dict_get(BeforeCurrent, k, NULL)
          /\ last.command = UNSET =>
                /\ ~has_key(Current, last.operation[2])
                /\ \A k \in Keys \ {last.operation[2]} :
                      /\ has_key(Current, k) <=> has_key(BeforeCurrent, k)
                      /\ dict_get(Current, k, NULL) = dict_get(BeforeCurrent, k, NULL)
          /\ last.command = GET =>
                last.printed = <<dict_get(BeforeCurrent, last.operation[2], NULL)>>

\* The lower-case line `set a 2` has run as SET while key A holds 1.
C9_Witness ==
    /\ LineRead
    /\ last.operation = << <<"s","e","t">>, <<"a">>, <<"2">> >>
    /\ last.command = SET
    /\ dict_get(Current, <<"a">>, NULL) = <<"2">>
    /\ dict_get(Current, <<"A">>, NULL) = <<"1">>

\* The key lists of length at most n.
KeyLists(n) == UNION {[1..m -> Keys] : m \in 0..n}

\* ks lists exactly the keys of d whose value is `value`, in d's order.
ExactlyInOrder(d, value, ks) ==
    /\ \A i \in 1..Len(ks) :
          has_key(d, ks[i]) /\ d[index_of(d, ks[i])].value = value
    /\ \A i \in 1..Len(d) :
          d[i].value = value => \E j \in 1..Len(ks) : ks[j] = d[i].key
    /\ \A i \in 1..Len(ks) : \A j \in 1..Len(ks) :
          i < j => index_of(d, ks[i]) < index_of(d, ks[j])

\* C10: FIND v prints exactly the keys of the current store whose value
\* is v, in the store's insertion order, joined by ", " (empty if none);
\* BEGIN, COMMIT and ROLLBACK keep the order of the store they expose.
C10_FindExactInInsertionOrder ==
    watch = "last" =>
        /\ last.command = FIND =>
              /\ \E ks \in KeyLists(Len(Current)) :
                    /\ ExactlyInOrder(Current, last.operation[2], ks)
                    /\ last.printed = <<join(<<",", " ">>, ks)>>
              /\ heap = last.before.heap
              /\ frames = last.before.frames
        /\ last.command = BEGIN => Current = BeforeCurrent
        /\ Committed => Current = BeforeCurrent
        /\ RolledBack => Current = last.before.begun[BeforeDepth]

\* FIND inside a transaction printed `A, a`: two keys, A inserted first.
C10_Witness ==
    /\ watch = "last"
    /\ last.command = FIND
    /\ last.printed = << <<"A", ",", " ", "a">> >>
    /\ Depth >= 1

\* The last line was GET.
GetRan == watch = "last" /\ last.command = GET

\* The printed text is the value stored under `key` in d.
PrintedValueOf(d, key) ==
    \E i \in 1..Len(d) : d[i].key = key /\ last.printed = <<d[i].value>>

\* C11 as stated: GET k prints NULL if and only if k is absent from the
\* current store, and otherwise the stored value, so that the not-found
\* result differs from every result for a present key.
C11_GetNullIffAbsent ==
    GetRan =>
        /\ last.printed = <<NULL>> <=> ~has_key(BeforeCurrent, last.operation[2])
        /\ has_key(BeforeCurrent, last.operation[2]) =>
              PrintedValueOf(BeforeCurrent, last.operation[2])

\* C11 as amended: GET k prints NULL when k is absent and the stored value
\* when k is present; it prints NULL for a present key only when the
\* stored value is the text NULL.  GET changes nothing.
C11_GetValueOrNull ==
    GetRan =>
        /\ ~has_key(BeforeCurrent, last.operation[2]) => last.printed = <<NULL>>
        /\ has_key(BeforeCurrent, last.operation[2]) =>
              PrintedValueOf(BeforeCurrent, last.operation[2])
        /\ last.printed = <<NULL>> =>
              \/ ~has_key(BeforeCurrent, last.operation[2])
              \/ \E i \in 1..Len(BeforeCurrent) :
                    /\ BeforeCurrent[i].key = last.operation[2]
                    /\ BeforeCurrent[i].value = NULL
        /\ heap = last.before.heap
        /\ frames = last.before.frames

\* GET A printed 1 inside a transaction whose store also holds a = NULL,
\* while the parent store has neither key.
C11_Witness ==
    /\ GetRan
    /\ Depth >= 1
    /\ last.operation[2] = <<"A">>
    /\ last.printed = << <<"1">> >>
    /\ has_key(Current, <<"a">>)
    /\ ~has_key(NowStores[Depth], <<"A">>)

\* GET a printed NULL although a is present (its value is the text NULL).
C11_WitnessNullValue ==
    /\ GetRan
    /\ last.operation[2] = <<"a">>
    /\ has_key(BeforeCurrent, <<"a">>)
    /\ last.printed = <<NULL>>

\* The keys of d whose value is `value`.
KeysHolding(d, value) ==
    {key \in {d[i].key : i \in 1..Len(d)} :
        \E i \in 1..Len(d) : d[i].key = key /\ d[i].value = value}

\* C12: COUNTS v prints the number of keys of the current store whose
\* value equals v (0 when there is none) and changes no store.
C12_CountsKeysHoldingValue ==
    (watch = "last" /\ last.command = COUNTS) =>
        /\ last.printed =
              << <<Digits[Cardinality(KeysHolding(BeforeCurrent, last.operation[2])) + 1]>> >>
        /\ last.raised = ""
        /\ heap = last.before.heap
        /\ frames = last.before.frames

\* COUNTS 1 printed 2 inside a transaction whose parent store holds the
\* value 1 under no key.
C12_Witness ==
    /\ watch = "last"
    /\ last.command = COUNTS
    /\ last.operation[2] = <<"1">>
    /\ last.printed = << <<"2">> >>
    /\ Depth >= 1
    /\ KeysHolding(NowStores[Depth], <<"1">>) = {}

\* COUNTS printed 0 on a store that is not empty.
C12_WitnessZero ==
    /\ watch = "last"
    /\ last.command = COUNTS
    /\ last.printed = << <<"0">> >>
    /\ Current # <<>>

\* The last line was UNSET.
UnsetRan == watch = "last" /\ last.command = UNSET

\* The stores below the visible one are as before the last line.
LowerStoresUnchanged ==
    \A i \in 1..BeforeDepth : NowStores[i] = BeforeStores[i]

\* C13: UNSET of an absent key changes nothing and reports nothing; UNSET
\* of a present key removes exactly that key from the current store and
\* leaves every other key's value and relative order as they were.
C13_UnsetRemovesExactlyKey ==
    UnsetRan =>
        /\ last.printed = <<>>
        /\ last.raised = ""
        /\ pc = "running"
        /\ frames = last.before.frames
        /\ LowerStoresUnchanged
        /\ ~has_key(BeforeCurrent, last.operation[2]) => heap = last.before.heap
        /\ has_key(BeforeCurrent, last.operation[2]) =>
              \E i \in 1..Len(BeforeCurrent) :
                  /\ BeforeCurrent[i].key = last.operation[2]
                  /\ Current = SubSeq(BeforeCurrent, 1, i - 1)
                                \o SubSeq(BeforeCurrent, i + 1, Len(BeforeCurrent))

\* UNSET removed the middle one of three keys inside a transaction.
C13_Witness ==
    /\ UnsetRan
    /\ Depth >= 1
    /\ Len(BeforeCurrent) = 3
    /\ BeforeCurrent[2].key = last.operation[2]
    /\ Len(Current) = 2

\* UNSET of an absent key ran on a store with two other keys.
C13_WitnessAbsent ==
    /\ UnsetRan
    /\ Len(BeforeCurrent) = 2
    /\ ~has_key(BeforeCurrent, last.operation[2])

\* The two fixed messages.
Messages == {ValidationMessage, NoTransactionMessage}

\* C14: the output of a processed line depends on its command only: one
\* printed value for GET, COUNTS and FIND; nothing for SET, UNSET, BEGIN
\* and COMMIT inside a transaction; exactly the validation message for a
\* rejected line; exactly the no-transaction message for ROLLBACK and
\* COMMIT at depth 0.
C14_OutputPerCommand ==
    (watch = "last" /\ last.raised # "start") =>
        /\ last.command \in {GET, COUNTS, FIND} =>
              Len(last.printed) = 1 /\ last.printed[1] \notin Messages
        /\ last.command \in {SET, UNSET, BEGIN} => last.printed = <<>>
        /\ (last.command = COMMIT /\ BeforeDepth >= 1) => last.printed = <<>>
        /\ RejectedLine => last.printed = <<ValidationMessage>>
        /\ (last.command \in {ROLLBACK, COMMIT} /\ BeforeDepth = 0) =>
              last.printed = <<NoTransactionMessage>>
        /\ last.printed # <<>> =>
              \/ last.command \in {GET, COUNTS, FIND}
              \/ RejectedLine
              \/ last.command \in {ROLLBACK, COMMIT} /\ BeforeDepth = 0

\* FIND printed one value, the empty text, inside a transaction.
C14_Witness ==
    /\ watch = "last"
    /\ last.command = FIND
    /\ last.printed = << <<>> >>
    /\ Depth >= 1
    /\ Current # <<>>

\* COMMIT inside a transaction printed nothing.
C14_WitnessSilentCommit ==
    /\ watch = "last"
    /\ last.command = COMMIT
    /\ BeforeDepth = 2
    /\ last.printed = <<>>

\* The positions of s where a field starts: a character outside seps that
\* is the first of s or follows a character of seps.
FieldStarts(s, seps) ==
    {i \in 1..Len(s) : s[i] \notin seps /\ (i = 1 \/ s[i - 1] \in seps)}

\* The last position of the field that starts at i.
FieldEnd(s, seps, i) ==
    CHOOSE j \in i..Len(s) :
        /\ \A m \in i..j : s[m] \notin seps
        /\ j = Len(s) \/ s[j + 1] \in seps

\* The maximal runs of characters outside seps, from left to right.
Fields(s, seps) ==
    [n \in 1..Cardinality(FieldStarts(s, seps)) |->
        LET i == CHOOSE j \in FieldStarts(s, seps) :
                     Cardinality({m \in FieldStarts(s, seps) : m <= j}) = n
        IN  SubSeq(s, i, FieldEnd(s, seps, i))]

Whitespace == {" ", "\t"}

\* SET a 1 with several spaces between the fields.
SeveralSpacesSet == <<"S","E","T"," "," ","a"," "," "," ","1">>

\* SET a 1 with tabs between the fields.
TabbedSet == Tab(Tab(SET, <<"a">>), <<"1">>)

\* C15 as stated: the tokens of a line are its maximal runs of
\* non-whitespace characters, space and tab alike, so that a SET line
\* with tabs between its fields runs as that SET.
C15_TokensSplitOnWhitespace ==
    LineRead =>
        /\ last.operation = Fields(last.raw, Whitespace)
        /\ last.raw = TabbedSet => last.command = SET

\* C15 as amended: the tokens of a line are its maximal runs of characters
\* other than the space character; a line without tokens is rejected; a
\* SET line with several spaces between its fields runs as that SET; a SET
\* line with tabs between its fields is one token and is rejected.
C15_TokensSplitOnSpaces ==
    LineRead =>
        /\ last.operation = Fields(last.raw, {" "})
        /\ last.operation = <<>> =>
              /\ last.printed = <<ValidationMessage>>
              /\ heap = last.before.heap
        /\ last.raw = SeveralSpacesSet =>
              /\ last.command = SET
              /\ last.printed = <<>>
              /\ \E i \in 1..Len(Current) :
                    Current[i] = [key |-> <<"a">>, value |-> <<"1">>]
        /\ last.raw = TabbedSet =>
              /\ last.operation = <<TabbedSet>>
              /\ last.command = <<>>
              /\ last.printed = <<ValidationMessage>>
              /\ heap = last.before.heap

\* The SET line with several spaces ran inside a transaction and changed
\* the value of a from 2 to 1.
C15_Witness ==
    /\ LineRead
    /\ last.raw = SeveralSpacesSet
    /\ Depth >= 1
    /\ \E i \in 1..Len(BeforeCurrent) :
          BeforeCurrent[i] = [key |-> <<"a">>, value |-> <<"2">>]

\* The SET line with tabs was rejected.
C15_WitnessTabs ==
    /\ LineRead
    /\ last.raw = TabbedSet
    /\ last.printed = <<ValidationMessage>>

\* A line of spaces only was rejected.
C15_WitnessBlank ==
    /\ LineRead
    /\ last.raw = <<" ", " ">>
    /\ last.printed = <<ValidationMessage>>

\* GET, COUNTS and FIND give the same results on d and e.
SameAnswers(d, e) ==
    /\ \A key \in Keys : dict_get(d, key, NULL) = dict_get(e, key, NULL)
    /\ \A value \in Values :
          /\ count_value(d, value) = count_value(e, value)
          /\ find_value(d, value) = find_value(e, value)

\* C16: BEGIN pushes a full copy of the current store, so every GET,
\* COUNTS and FIND answers as before it; SET and UNSET change the top
\* store only; every store below the top equals the snapshot taken at the
\* BEGIN of the scope above it, in particular when that scope's COMMIT or
\* ROLLBACK is read.
C16_BeginCopiesAndScopesIsolate ==
    /\ Len(begun) = Depth
    /\ \A i \in 1..Depth : NowStores[i] = begun[i]
    /\ (watch = "last" /\ last.command = BEGIN) =>
          /\ Depth = BeforeDepth + 1
          /\ Current = BeforeCurrent
          /\ SameAnswers(Current, BeforeCurrent)
          /\ \A i \in 1..(BeforeDepth + 1) : NowStores[i] = BeforeStores[i]
          /\ Top.database # frames[Depth].database
    /\ (watch = "last" /\ last.command \in {SET, UNSET}) =>
          /\ frames = last.before.frames
          /\ LowerStoresUnchanged
    /\ (watch = "last" /\ last.command \in {COMMIT, ROLLBACK}
           /\ BeforeDepth >= 1) =>
          BeforeStores[BeforeDepth] = last.before.begun[BeforeDepth]

\* SET changed the store of a scope at depth 2 whose parent and base
\* stores differ from it and from each other.
C16_Witness ==
    /\ watch = "last"
    /\ last.command = SET
    /\ Depth = 2
    /\ Current # BeforeCurrent
    /\ NowStores[2] # Current
    /\ NowStores[1] # NowStores[2]
    /\ NowStores[1] # <<>>

\* BEGIN has just copied a store of two keys.
C16_WitnessBegin ==
    /\ watch = "last"
    /\ last.command = BEGIN
    /\ Len(Current) = 2

\* COMMIT was read while the parent still equalled the snapshot and the
\* committed store differed from it.
C16_WitnessCommit ==
    /\ watch = "last"
    /\ last.command = COMMIT
    /\ BeforeDepth >= 1
    /\ BeforeCurrent # last.before.begun[BeforeDepth]
    /\ last.before.begun[BeforeDepth] # <<>>

----------------------------------------------------------------------------
\* The explicit stack machine of the design: a Store is a sequence of
\* items in insertion order, the TransactionStack a sequence of Stores
\* whose first element is the base and whose last is the current store.

\* Store.set: inserts at the end or overwrites in place.
Store_set(store, key, value) ==
    IF \E i \in 1..Len(store) : store[i].key = key
    THEN [i \in 1..Len(store) |->
             IF store[i].key = key THEN [key |-> key, value |-> value]
             ELSE store[i]]
    ELSE store \o <<[key |-> key, value |-> value]>>

\* Store.get: the stored value, or the not-found marker.
Store_get(store, key) ==
    IF \E i \in 1..Len(store) : store[i].key = key
    THEN [found |-> TRUE,
          value |-> store[CHOOSE i \in 1..Len(store) : store[i].key = key].value]
    ELSE [found |-> FALSE, value |-> <<>>]

\* Store.unset: removes the key if present.
RECURSIVE Store_unset(_, _)
Store_unset(store, key) ==
    IF store = <<>> THEN <<>>
    ELSE IF Head(store).key = key THEN Store_unset(Tail(store), key)
    ELSE <<Head(store)>> \o Store_unset(Tail(store), key)

\* Store.countByValue
RECURSIVE countByValue(_, _)
countByValue(store, value) ==
    IF store = <<>> THEN 0
    ELSE (IF Head(store).value = value THEN 1 ELSE 0)
         + countByValue(Tail(store), value)

\* Store.findByValue: the keys in the mapping's iteration order.
findByValue(store, value) ==
    LET hits == {i \in 1..Len(store) : store[i].value = value} IN
    [n \in 1..Cardinality(hits) |->
        store[CHOOSE i \in hits : Cardinality({j \in hits : j <= i}) = n].key]

\* The arity table of the CommandValidator.
Arity ==
    [c \in {SET, GET, UNSET, COUNTS, FIND, END, BEGIN, ROLLBACK, COMMIT} |->
        IF c = SET THEN 3
        ELSE IF c \in {GET, UNSET, COUNTS, FIND} THEN 2 ELSE 1]

\* CommandValidator.validate: the normalized command tag, or no tag.
validate(token_list) ==
    IF token_list = <<>> THEN [ok |-> FALSE, tag |-> <<>>]
    ELSE IF upper(token_list[1]) \notin DOMAIN Arity
         THEN [ok |-> FALSE, tag |-> <<>>]
    ELSE IF Len(token_list) # Arity[upper(token_list[1])]
         THEN [ok |-> FALSE, tag |-> <<>>]
    ELSE [ok |-> TRUE, tag |-> upper(token_list[1])]

\* A base-10 integer as text.
RECURSIVE Base10(_)
Base10(n) ==
    LET digit == << <<"0","1","2","3","4","5","6","7","8","9">>[(n % 10) + 1] >>
    IN  IF n < 10 THEN digit ELSE Base10(n \div 10) \o digit

\* The keys joined by a comma and a space.
RECURSIVE Joined(_)
Joined(key_list) ==
    IF key_list = <<>> THEN <<>>
    ELSE IF Len(key_list) = 1 THEN key_list[1]
    ELSE key_list[1] \o <<",", " ">> \o Joined(Tail(key_list))

\* A stack with its top store replaced.
WithTop(stack, store) == [stack EXCEPT ![Len(stack)] = store]

\* TransactionEngine.step on the token list of one line: the stack after
\* the line, the StepOutcome and the text of a Printed outcome.
step(stack, token_list) ==
    LET top == stack[Len(stack)]
        depth == Len(stack) - 1
        tag == validate(token_list).tag
        Outcome(st, outcome, text) ==
            [stack |-> st, outcome |-> outcome, text |-> text]
    IN  IF ~validate(token_list).ok
        THEN Outcome(stack, "ValidationFailed", <<>>)
        ELSE IF tag = SET
        THEN Outcome(WithTop(stack, Store_set(top, token_list[2], token_list[3])),
                     "Silent", <<>>)
        ELSE IF tag = GET
        THEN Outcome(stack, "Printed",
                     IF Store_get(top, token_list[2]).found
                     THEN Store_get(top, token_list[2]).value
                     ELSE <<"N","U","L","L">>)
        ELSE IF tag = UNSET
        THEN Outcome(WithTop(stack, Store_unset(top, token_list[2])), "Silent", <<>>)
        ELSE IF tag = COUNTS
        THEN Outcome(stack, "Printed", Base10(countByValue(top, token_list[2])))
        ELSE IF tag = FIND
        THEN Outcome(stack, "Printed", Joined(findByValue(top, token_list[2])))
        ELSE IF tag = BEGIN
        THEN Outcome(Append(stack, top), "Silent", <<>>)
        ELSE IF tag = ROLLBACK
        THEN IF depth = 0 THEN Outcome(stack, "TransactionError", <<>>)
             ELSE Outcome(SubSeq(stack, 1, depth), "Silent", <<>>)
        ELSE IF tag = COMMIT
        THEN IF depth = 0 THEN Outcome(stack, "TransactionError", <<>>)
             ELSE Outcome(WithTop(SubSeq(stack, 1, depth), top), "Silent", <<>>)
        ELSE Outcome(stack, "Terminate", <<>>)

\* The front end signals end of input or an interrupt.
end_of_input(stack) == [stack |-> stack, outcome |-> "Terminate", text |-> <<>>]

----------------------------------------------------------------------------
\* The recursive interpreter against the stack machine

\* The step of the stack machine on the line the interpreter ran last,
\* from the stack that the frames stood for before that line.
MachineStep ==
    IF last.raised = "ExitException" /\ last.command = <<>>
    THEN end_of_input(BeforeStores)
    ELSE step(BeforeStores, last.operation)

\* What the front end prints for an outcome.
Rendered(r) ==
    IF r.outcome = "Printed" THEN <<r.text>>
    ELSE IF r.outcome = "ValidationFailed" THEN <<ValidationMessage>>
    ELSE IF r.outcome = "TransactionError" THEN <<NoTransactionMessage>>
    ELSE <<>>

\* C17: the recursive interpreter and the explicit stack machine agree on
\* every line: the same output, termination at the same line, the frames'
\* databases equal to the stack's stores level by level, and
\* is_transaction true exactly in the frames above the base.
C17_RecursionRefinesStack ==
    /\ \A i \in 1..Len(frames) : frames[i].is_transaction <=> i - 1 > 0
    /\ watch = "last" =>
          (pc # "running" <=>
              (last.raised # "start" /\ MachineStep.outcome = "Terminate"))
    /\ (watch = "last" /\ last.raised = "start") => NowStores = << <<>> >>
    /\ (watch = "last" /\ last.raised # "start") =>
          /\ last.printed = Rendered(MachineStep)
          /\ pc = "running" => NowStores = MachineStep.stack
          /\ pc # "running" =>
                /\ Len(frames) <= Len(MachineStep.stack)
                /\ \A i \in 1..Len(frames) : NowStores[i] = MachineStep.stack[i]

\* COMMIT at depth 2 replaced a parent store that differed from the
\* committed one, and the stack machine made the same step.
C17_Witness ==
    /\ watch = "last"
    /\ last.command = COMMIT
    /\ BeforeDepth = 2
    /\ BeforeCurrent # BeforeStores[2]
    /\ BeforeStores[2] # BeforeStores[1]
    /\ MachineStep.outcome = "Silent"
    /\ Len(MachineStep.stack) = 2
    /\ NowStores = MachineStep.stack

\* END arrived at depth 2 and both sides terminated.
C17_WitnessTerminate ==
    /\ watch = "last"
    /\ last.command = END
    /\ BeforeDepth = 2
    /\ pc = "exited"
    /\ MachineStep.outcome = "Terminate"

----------------------------------------------------------------------------
\* A transaction against the same lines without it

\* The stores of the shadow run.
ShadowStores == Stores(shadow.heap, shadow.frames)

\* The is_transaction flags of the frames f.
Flags(f) == [i \in 1..Len(f) |-> f[i].is_transaction]

\* C18: a committed transaction is transparent.  The run of the same
\* lines without a BEGIN and its matching COMMIT prints what the run with
\* them prints; while the transaction is open it sees the same visible
\* store, and from the COMMIT on it has the same stores in the same item
\* order at the same depth.
C18_CommittedTransactionTransparent ==
    watch = "shadow" =>
        /\ shadow.same
        /\ shadow.phase = "open" =>
              /\ Len(shadow.frames) = Depth
              /\ ShadowStores[Depth] = Current
              /\ \A i \in 1..(Depth - 1) :
                    ShadowStores[i] = (IF i <= shadow.base THEN NowStores[i]
                                       ELSE NowStores[i + 1])
        /\ shadow.phase \in {"closed", "after"} =>
              /\ pc = "running"
              /\ ShadowStores = NowStores
              /\ Flags(shadow.frames) = Flags(frames)

\* The COMMIT of a transaction opened at depth 1, which changed the store
\* and read some line that printed, has just run.
C18_Witness ==
    /\ watch = "shadow"
    /\ shadow.phase = "closed"
    /\ shadow.base = 1
    /\ ~shadow.empty
    /\ ShadowStores # shadow.pre
    /\ Len(Current) = 2

\* Lines were read after the COMMIT and another transaction is open.
C18_WitnessAfter ==
    /\ watch = "shadow"
    /\ shadow.phase = "after"
    /\ Depth = 2
    /\ NowStores[3] # NowStores[2]

\* C19: an empty transaction changes nothing.  When COMMIT or ROLLBACK is
\* the line right after BEGIN, the depth and every store of the stack,
\* the visible one with its item order included, are as before the BEGIN.
C19_EmptyTransactionIsNoOp ==
    (watch = "shadow" /\ shadow.phase \in {"closed", "rolled"}
       /\ shadow.empty) =>
        /\ Depth = shadow.base
        /\ Len(shadow.pre) = Depth + 1
        /\ NowStores = shadow.pre
        /\ pc = "running"

\* BEGIN and then COMMIT ran at depth 1 on a store of two keys that
\* differs from the base store.
C19_Witness ==
    /\ watch = "shadow"
    /\ shadow.phase = "closed"
    /\ shadow.empty
    /\ shadow.base = 1
    /\ Len(Current) = 2
    /\ NowStores[1] # Current

\* BEGIN and then ROLLBACK ran on a store that is not empty.
C19_WitnessRollback ==
    /\ watch = "shadow"
    /\ shadow.phase = "rolled"
    /\ shadow.empty
    /\ Current # <<>>

====
